---- MODULE Spec2Model ----
(***************************************************************************)
(* Model of src/mbed/main.cc: the mbed firmware that receives one-byte     *)
(* motor packets from the Raspberry Pi, drives four motors, samples the    *)
(* ADC channels and prints the readings back.                              *)
(*                                                                         *)
(* Numbers that the firmware handles as floats are all multiples of 1/31   *)
(* (sign * speed / 31.0); they are represented by their signed numerator   *)
(* over the denominator SpeedScale.                                        *)
(***************************************************************************)
EXTENDS Integers, Sequences, FiniteSets, TLC

\* ------------------------------------------------------------------ bounds
MaxPending == 2      \* bytes that may wait unread in the serial receive buffer
NumCmds == 4         \* how many entries of CmdList the Raspberry Pi may send
NumReadings == 2     \* how many entries of ReadingList an ADC read may return

\* ------------------------------------------------------- program constants
NumMotors == 4       \* Motor motors[4]
n_adc == 2           \* int n_adc = 2
SpeedScale == 31     \* ... / 31.0
ForwardLevel == 1    \* dir = speed < 0 ? 0 : 1   ("HI is forward")
ReverseLevel == 0    \* dir = speed < 0 ? 0 : 1   ("LO is reverse")
LeftFlipperChannel == 4    \* pots[4]
RightFlipperChannel == 5   \* pots[5]
NumChannels == 6           \* AnalogIn pots[6]


\* --------------------------------------------------------------- the codec

\* unsigned int motor_id : 2  -- the two lowest bits of as_byte
b_motor_id(byte) == byte % 4

\* a sign bit read from the wrong position (bit 5 instead of bit 2)
b_negative_bit5(byte) == (byte \div 32) % 2

\* unsigned int negative : 1  -- the next bit
b_negative(byte) == (byte \div 4) % 2

\* a speed field that is one bit too narrow
b_speed_4bit(byte) == (byte \div 8) % 16

\* a speed field declared one bit too wide, overlapping the sign bit
b_speed_6bit(byte) == (byte \div 4) % 64

\* unsigned int speed : 5  -- the five highest bits
b_speed(byte) == (byte \div 8) % 32

\* The union read in the other direction: the fields b.motor_id, b.negative
\* and b.speed stored, then as_byte read.
as_byte(t) == (t.motor_id + 4 * t.negative + 8 * t.speed) % 256

\* the three fields of the packet held in as_byte
Fields(byte) ==
    [motor_id |-> b_motor_id(byte),
     negative |-> b_negative(byte),
     speed    |-> b_speed(byte)]

\* an extension test that lost the "!" before speed
IsExtensionNoNot(byte) == b_negative(byte) = 1 /\ b_speed(byte) # 0

\* an extension test that joins the two conditions with "or"
IsExtensionOr(byte) == b_negative(byte) = 1 \/ b_speed(byte) = 0

\* if(packet.b.negative and !packet.b.speed)
IsExtension(byte) == b_negative(byte) = 1 /\ b_speed(byte) = 0

\* sign = packet.b.negative ? -1 : 1;   sign * packet.b.speed  (/ 31.0)
NormalizedSpeed(byte) ==
    (IF b_negative(byte) = 1 THEN -1 ELSE 1) * b_speed(byte)

\* ---------------------------------------------------------------- motors

\* the integer abs() of <stdlib.h> applied to the float: truncates to 0 or 1
abs_truncating(x) ==
    IF x = SpeedScale \/ x = -SpeedScale THEN SpeedScale ELSE 0

\* abs(speed) on the float argument: the floating-point overload that
\* <math.h> declares for C++ (mbed.h includes it), so no truncation
abs(x) == IF x < 0 THEN -x ELSE x

\* a constructor that leaves the direction pin high
Motor_init_high == [pwm |-> 0, dir |-> 1]

\* Motor::Motor: pwm = dir = 0
Motor_init == [pwm |-> 0, dir |-> 0]

\* a drive whose comparison is "<=": zero speed gives the reverse level
drive_le(speed) ==
    [dir |-> IF speed <= 0 THEN 0 ELSE 1,
     pwm |-> abs(speed)]

\* Motor::drive: dir = speed < 0 ? 0 : 1;  pwm = abs(speed);
drive(speed) ==
    [dir |-> IF speed < 0 THEN 0 ELSE 1,
     pwm |-> abs(speed)]

Motors == 0 .. (NumMotors - 1)

\* ------------------------------------------------------------- the report

HexChars ==
    <<"0", "1", "2", "3", "4", "5", "6", "7",
      "8", "9", "A", "B", "C", "D", "E", "F">>

\* the digits of %x
HexCharsLower ==
    <<"0", "1", "2", "3", "4", "5", "6", "7",
      "8", "9", "a", "b", "c", "d", "e", "f">>

\* lower-case digit, as %x would print
HexDigitLower(d) == HexCharsLower[d + 1]

\* one digit of %X
HexDigit(d) == HexChars[d + 1]

\* the conversion %04X: zero-padded to four digits
ToHexPadded(v) ==
    IF v < 16 THEN <<"0", "0", "0", HexDigit(v)>>
    ELSE IF v < 256 THEN <<"0", "0", HexDigit(v \div 16), HexDigit(v % 16)>>
    ELSE IF v < 4096
         THEN <<"0", HexDigit(v \div 256), HexDigit((v \div 16) % 16),
                HexDigit(v % 16)>>
    ELSE <<HexDigit(v \div 4096), HexDigit((v \div 256) % 16),
           HexDigit((v \div 16) % 16), HexDigit(v % 16)>>

RECURSIVE ToHex(_)
\* the conversion %X: upper case, no padding, at least one digit
ToHex(v) ==
    IF v < 16 THEN <<HexDigit(v)>>
    ELSE ToHex(v \div 16) \o <<HexDigit(v % 16)>>

\* rpi.printf("0x%X ", adc_results[i])
Token(v) == <<"0", "x">> \o ToHex(v) \o <<" ">>

RECURSIVE PrintResults(_, _, _)
\* for(int i = 0; i < n_adc; i++) rpi.printf("0x%X ", adc_results[i]);
PrintResults(res, i, n) ==
    IF i >= n THEN <<>>
    ELSE Token(res[i]) \o PrintResults(res, i + 1, n)

\* the whole output of one Report step, the final rpi.printf("\n") included
ReportLine(res, n) == PrintResults(res, 0, n) \o <<"\n">>

\* ------------------------------------------------------------ the sampler

\* the channels of pots[] that one Sample step reads
ReadChannels(n) ==
    {i \in 0 .. (NumChannels - 1) : i < n - 2} \cup {LeftFlipperChannel, RightFlipperChannel}

\* a Sample step with the two flipper channels stored the other way round
SampleResultsSwapped(res, n, v) ==
    LET r1 == [i \in DOMAIN res |-> IF i < n - 2 THEN v[i] ELSE res[i]]
        r2 == IF n - 2 \in DOMAIN r1
              THEN [r1 EXCEPT ![n - 2] = v[RightFlipperChannel]] ELSE r1
        r3 == IF n - 1 \in DOMAIN r2
              THEN [r2 EXCEPT ![n - 1] = v[LeftFlipperChannel]] ELSE r2
    IN  r3

\* the results buffer after the three groups of assignments of the Sample
\* step, v[c] being what pots[c].read_u16() returned
SampleResults(res, n, v) ==
    LET r1 == [i \in DOMAIN res |-> IF i < n - 2 THEN v[i] ELSE res[i]]
        r2 == IF n - 2 \in DOMAIN r1
              THEN [r1 EXCEPT ![n - 2] = v[LeftFlipperChannel]] ELSE r1
        r3 == IF n - 1 \in DOMAIN r2
              THEN [r2 EXCEPT ![n - 1] = v[RightFlipperChannel]] ELSE r2
    IN  r3

\* the stores of one Sample step in program order: the results-buffer index
\* written and the channel of pots[] read for it
SampleWrites(n) ==
    [k \in 1 .. (IF n > 2 THEN n - 2 ELSE 0) |-> [slot |-> k - 1, channel |-> k - 1]]
        \o <<[slot |-> n - 2, channel |-> LeftFlipperChannel],
             [slot |-> n - 1, channel |-> RightFlipperChannel]>>

\* the results-buffer indices one Report step reads, in program order
ReportReads(n) == [k \in 1 .. (IF n > 0 THEN n ELSE 0) |-> k - 1]

\* the stores of one Sample step that fall outside adc_results[0 .. n-1]
StrayWrites(n) ==
    {k \in DOMAIN SampleWrites(n) :
        SampleWrites(n)[k].slot < 0 \/ SampleWrites(n)[k].slot >= n}

\* AnalogIn pots[6] = {p15, p16, p17, p18, p19, p20}
PotPins ==
    [c \in 0 .. (NumChannels - 1) |-> <<"p15", "p16", "p17", "p18", "p19", "p20">>[c + 1]]

\* ---------------------------------------------------------- the inputs

\* packets the Raspberry Pi sends in this model, as field triples
CmdList ==
    <<[motor_id |-> 0, negative |-> 1, speed |-> 0],    \* byte 0x04
      [motor_id |-> 0, negative |-> 0, speed |-> 4],    \* byte 0x20
      [motor_id |-> 1, negative |-> 0, speed |-> 8],    \* byte 0x41
      [motor_id |-> 2, negative |-> 1, speed |-> 5],    \* byte 0x2E
      [motor_id |-> 3, negative |-> 0, speed |-> 31],   \* byte 0xFB
      [motor_id |-> 0, negative |-> 0, speed |-> 0],    \* byte 0x00
      [motor_id |-> 1, negative |-> 0, speed |-> 2],    \* byte 0x11
      [motor_id |-> 3, negative |-> 1, speed |-> 31],   \* byte 0xFF
      [motor_id |-> 2, negative |-> 1, speed |-> 0]>>   \* byte 0x06

Min(a, b) == IF a < b THEN a ELSE b

Cmds == {CmdList[i] : i \in 1 .. Min(NumCmds, Len(CmdList))}

\* every triple of fields
AllTriples ==
    [motor_id : 0 .. 3, negative : 0 .. 1, speed : 0 .. 31]

\* values read_u16() returns in this model
ReadingList == <<0, 4660, 43981, 65535, 255>>   \* 0x0 0x1234 0xABCD 0xFFFF 0xFF

Readings == {ReadingList[i] : i \in 1 .. Min(NumReadings, Len(ReadingList))}

\* a byte on the wire, with the triple the sender packed into it
Wire(t) == [triple |-> t, byte |-> as_byte(t)]

\* ---------------------------------------------------------------- state

VARIABLES
    pc,            \* the step of the loop body that runs next
    packet,        \* packet.as_byte
    rx,            \* bytes received by the serial port and not yet read
    motors,        \* motors[i].pwm (numerator over SpeedScale), motors[i].dir
    n_active,      \* the value n_adc is built with
    pots,          \* pots[0 .. 5], the pin each channel is bound to
    adc_results,   \* adc_results[0 .. n_adc-1]
    tx,            \* what the current iteration has written to the serial port
    \* history variables
    origin,        \* <<t>>, t the triple the sender packed into the byte in
                   \* packet; <<>> while no byte has been read
    got,           \* whether the Ingest step of this iteration read a byte
    branch,        \* the branch the latest Act step took
    acted,         \* <<b>>, b the packet the latest Act step acted upon
    prevActed,     \* <<b>>, b the packet the Act step before that acted upon
    motorsBefore,  \* motors when the latest Act step began
    afterAct,      \* motors when the latest Act step ended
    afterPrevAct,  \* motors when the Act step before that ended
    driven,        \* the motors drive() has been called on
    lastSpeed,     \* per motor <<s>>, s the speed of the latest drive() call
                   \* on it; <<>> while it has not been driven
    writes,        \* the stores of the latest Sample step (index, channel)
    printed,       \* the results-buffer indices the latest Report step read
    reads,         \* what each channel read in the latest Sample step returned
    steps          \* the steps of the current iteration done so far

vars ==
    <<pc, packet, rx, motors, n_active, pots, adc_results, tx, origin, got,
      branch, acted, prevActed, motorsBefore, afterAct, afterPrevAct, driven,
      lastSpeed, writes, printed, reads, steps>>

\* a loop body that samples before it acts
NextPcSwapped(p) ==
    CASE p = "ingest" -> "sample"
      [] p = "sample" -> "act"
      [] p = "act"    -> "report"
      [] p = "report" -> "ingest"

\* the order of the statements of the body of while(1)
NextPc(p) ==
    CASE p = "ingest" -> "act"
      [] p = "act"    -> "sample"
      [] p = "sample" -> "report"
      [] p = "report" -> "ingest"

\* the state when while(1) is entered, common part; packet is uninitialized
\* and holds whatever byte the stack slot held
InitCommon ==
    /\ pc = "ingest"
    /\ motors = [i \in Motors |-> Motor_init]
    /\ pots = PotPins
    /\ adc_results = [i \in 0 .. (n_active - 1) |-> 0]
    /\ lastSpeed = [i \in Motors |-> <<>>]
    /\ writes = <<>>
    /\ printed = <<>>
    /\ tx = <<>>
    /\ origin = <<>>
    /\ got = FALSE
    /\ branch = "none"
    /\ acted = <<>>
    /\ prevActed = <<>>
    /\ motorsBefore = [i \in Motors |-> Motor_init]
    /\ afterAct = [i \in Motors |-> Motor_init]
    /\ afterPrevAct = [i \in Motors |-> Motor_init]
    /\ driven = {}
    /\ reads = <<>>
    /\ steps = <<>>

Init ==
    /\ n_active = n_adc
    /\ InitCommon
    /\ packet \in {as_byte(t) : t \in Cmds}
    /\ rx = <<>>

\* the Raspberry Pi sends one packet; the serial port receives it
Arrive ==
    /\ Len(rx) < MaxPending
    /\ \E t \in Cmds : rx' = Append(rx, Wire(t))
    /\ UNCHANGED <<pc, packet, motors, n_active, pots, adc_results, tx,
                   origin, got, branch, acted, prevActed, motorsBefore,
                   afterAct, afterPrevAct, driven, lastSpeed, writes, printed,
                   reads, steps>>

\* an Ingest step that falls back to the stop packet when nothing arrived
IngestIdle ==
    /\ pc = "ingest"
    /\ IF rx # <<>>
       THEN /\ packet' = Head(rx).byte % 256
            /\ origin' = <<Head(rx).triple>>
            /\ rx' = Tail(rx)
            /\ got' = TRUE
       ELSE /\ got' = FALSE
            /\ packet' = 0
            /\ UNCHANGED <<origin, rx>>
    /\ pc' = NextPc(pc)
    /\ steps' = <<"ingest">>
    /\ tx' = <<>>
    /\ UNCHANGED <<motors, n_active, pots, adc_results, branch, acted,
                   prevActed, motorsBefore, afterAct, afterPrevAct, driven,
                   lastSpeed, writes, printed, reads>>

\* an Ingest step that reads while bytes are readable and keeps the last one
IngestDrain ==
    /\ pc = "ingest"
    /\ IF rx # <<>>
       THEN /\ packet' = rx[Len(rx)].byte % 256
            /\ origin' = <<rx[Len(rx)].triple>>
            /\ rx' = <<>>
            /\ got' = TRUE
       ELSE /\ got' = FALSE
            /\ UNCHANGED <<packet, origin, rx>>
    /\ pc' = NextPc(pc)
    /\ steps' = <<"ingest">>
    /\ tx' = <<>>
    /\ UNCHANGED <<motors, n_active, pots, adc_results, branch, acted,
                   prevActed, motorsBefore, afterAct, afterPrevAct, driven,
                   lastSpeed, writes, printed, reads>>

\* an Ingest step that calls getc() without asking readable(): it waits for
\* a byte
IngestBlocking ==
    /\ pc = "ingest"
    /\ rx # <<>>
    /\ packet' = Head(rx).byte % 256
    /\ origin' = <<Head(rx).triple>>
    /\ rx' = Tail(rx)
    /\ got' = TRUE
    /\ pc' = NextPc(pc)
    /\ steps' = <<"ingest">>
    /\ tx' = <<>>
    /\ UNCHANGED <<motors, n_active, pots, adc_results, branch, acted,
                   prevActed, motorsBefore, afterAct, afterPrevAct, driven,
                   lastSpeed, writes, printed, reads>>

\* if(rpi.readable()) packet.as_byte = rpi.getc();
Ingest ==
    /\ pc = "ingest"
    /\ IF rx # <<>>
       THEN /\ packet' = Head(rx).byte % 256
            /\ origin' = <<Head(rx).triple>>
            /\ rx' = Tail(rx)
            /\ got' = TRUE
       ELSE /\ got' = FALSE
            /\ UNCHANGED <<packet, origin, rx>>
    /\ pc' = NextPc(pc)
    /\ steps' = <<"ingest">>
    /\ tx' = <<>>
    /\ UNCHANGED <<motors, n_active, pots, adc_results, branch, acted,
                   prevActed, motorsBefore, afterAct, afterPrevAct, driven,
                   lastSpeed, writes, printed, reads>>

\* an Act step whose drive adds the commanded duty to the present one
ActAccumulate ==
    /\ pc = "act"
    /\ IF IsExtension(packet)
       THEN /\ branch' = "extension"
            /\ UNCHANGED <<motors, driven, lastSpeed>>
       ELSE /\ branch' = "drive"
            /\ motors' = [motors EXCEPT ![b_motor_id(packet)] =
                   [dir |-> drive(NormalizedSpeed(packet)).dir,
                    pwm |-> Min(SpeedScale,
                                motors[b_motor_id(packet)].pwm
                                    + drive(NormalizedSpeed(packet)).pwm)]]
            /\ driven' = driven \cup {b_motor_id(packet)}
            /\ lastSpeed' = [lastSpeed EXCEPT ![b_motor_id(packet)] =
                                            <<NormalizedSpeed(packet)>>]
    /\ motorsBefore' = motors
    /\ afterAct' = motors'
    /\ afterPrevAct' = afterAct
    /\ acted' = <<packet>>
    /\ prevActed' = acted
    /\ pc' = NextPc(pc)
    /\ steps' = Append(steps, "act")
    /\ UNCHANGED <<packet, rx, n_active, pots, adc_results, tx, origin, got,
                   writes, printed, reads>>

\* if(packet.b.negative and !packet.b.speed) { } else { ... drive(...) }
Act ==
    /\ pc = "act"
    /\ IF IsExtension(packet)
       THEN /\ branch' = "extension"
            /\ UNCHANGED <<motors, driven, lastSpeed>>
       ELSE /\ branch' = "drive"
            /\ motors' = [motors EXCEPT ![b_motor_id(packet)] =
                                            drive(NormalizedSpeed(packet))]
            /\ driven' = driven \cup {b_motor_id(packet)}
            /\ lastSpeed' = [lastSpeed EXCEPT ![b_motor_id(packet)] =
                                            <<NormalizedSpeed(packet)>>]
    /\ motorsBefore' = motors
    /\ afterAct' = motors'
    /\ afterPrevAct' = afterAct
    /\ acted' = <<packet>>
    /\ prevActed' = acted
    /\ pc' = NextPc(pc)
    /\ steps' = Append(steps, "act")
    /\ UNCHANGED <<packet, rx, n_active, pots, adc_results, tx, origin, got,
                   writes, printed, reads>>

\* the two groups of adc_results[...] = pots[...].read_u16().  A store outside
\* the buffer (n_adc < 2) is undefined: it lands in memory next to the buffer,
\* where it either hits nothing live or the byte of packet.
Sample ==
    /\ pc = "sample"
    /\ \E v \in [ReadChannels(n_active) -> Readings] :
          /\ adc_results' = SampleResults(adc_results, n_active, v)
          /\ reads' = v
          /\ packet' \in {packet} \cup
                 {v[SampleWrites(n_active)[k].channel] % 256 :
                      k \in StrayWrites(n_active)}
    /\ writes' = SampleWrites(n_active)
    /\ pc' = NextPc(pc)
    /\ steps' = Append(steps, "sample")
    /\ UNCHANGED <<rx, motors, n_active, pots, tx, origin, got, branch, acted,
                   prevActed, motorsBefore, afterAct, afterPrevAct, driven,
                   lastSpeed, printed>>

\* the printf loop and the final printf("\n")
Report ==
    /\ pc = "report"
    /\ tx' = tx \o ReportLine(adc_results, n_active)
    /\ printed' = ReportReads(n_active)
    /\ pc' = NextPc(pc)
    /\ steps' = Append(steps, "report")
    /\ UNCHANGED <<packet, rx, motors, n_active, pots, adc_results, origin,
                   got, branch, acted, prevActed, motorsBefore, afterAct,
                   afterPrevAct, driven, lastSpeed, writes, reads>>

Next == Arrive \/ Ingest \/ Act \/ Sample \/ Report

Spec == Init /\ [][Next]_vars

\* one statement group of the body of while(1)
LoopStep == Ingest \/ Act \/ Sample \/ Report

\* the Raspberry Pi sends a packet once the one before has been read
ArrivePaced == rx = <<>> /\ Arrive

NextFair == ArrivePaced \/ LoopStep

\* The processor keeps executing the loop: a step of the loop body that can
\* run does run.  Nothing obliges the Raspberry Pi to send.
SpecFair == Init /\ [][NextFair]_vars /\ WF_vars(LoopStep)

\* The firmware started with one byte already waiting, any of the 256: every
\* packet value goes through Ingest and Act.
InitAllBytes ==
    /\ n_active = n_adc
    /\ InitCommon
    /\ packet \in {as_byte(t) : t \in Cmds}
    /\ \E t \in AllTriples : rx = <<Wire(t)>>

NextAllBytes == Ingest \/ Act \/ Sample \/ Report

SpecAllBytes == InitAllBytes /\ [][NextAllBytes]_vars

\* The firmware built with each channel count n_adc from 0 to the 6 channels
\* of pots[], nothing arriving on the serial port.
InitChannels ==
    /\ n_active \in 0 .. NumChannels
    /\ InitCommon
    /\ packet \in {as_byte(t) : t \in Cmds}
    /\ rx = <<>>

NextChannels == Ingest \/ Act \/ Sample \/ Report

SpecChannels == InitChannels /\ [][NextChannels]_vars

TypeOK ==
    /\ pc \in {"ingest", "act", "sample", "report"}
    /\ packet \in 0 .. 255
    /\ \A i \in Motors : motors[i].pwm \in 0 .. SpeedScale /\ motors[i].dir \in 0 .. 1
    /\ n_active \in 0 .. NumChannels
    /\ \A i \in 0 .. (n_active - 1) : adc_results[i] \in 0 .. 65535

\* ------------------------------------------------------------ properties

\* the Act step of the current iteration has run
Acted == Len(steps) >= 2

\* the packet value the current iteration acted upon
ActedByte == acted[1]

Triple(m, n, s) == [motor_id |-> m, negative |-> n, speed |-> s]

\* C1: every byte decodes, with motor_id its two lowest bits, negative the
\* next bit and speed the five highest bits, to fields with motor_id in 0..3
\* and speed in 0..31, and the Act step treats the packet as an extension
\* command exactly when negative is set and speed is 0.
C1_DecodeTotal ==
    LET f == Fields(packet)
    IN  /\ packet \in 0 .. 255
        /\ f.motor_id \in 0 .. 3
        /\ f.negative \in 0 .. 1
        /\ f.speed \in 0 .. 31
        /\ packet = f.motor_id + 4 * f.negative + 8 * f.speed
        /\ Acted => (branch = "extension" <=> (f.negative = 1 /\ f.speed = 0))

C1_Witness ==
    /\ Acted
    /\ got
    /\ packet = 254
    /\ branch = "drive"

\* C2: a triple packed into a byte as motor_id + 4*negative + 8*speed and
\* sent decodes to the same triple, and no other triple packs to that byte.
C2_RoundTrip ==
    origin # <<>> =>
        /\ packet = origin[1].motor_id + 4 * origin[1].negative
                        + 8 * origin[1].speed
        /\ Fields(packet) = origin[1]
        /\ \A t \in AllTriples :
              t.motor_id + 4 * t.negative + 8 * t.speed = packet
                  => t = origin[1]

C2_Witness ==
    /\ origin = <<Triple(3, 1, 31)>>
    /\ packet = 255
    /\ Fields(packet) = Triple(3, 1, 31)

\* C3 as stated: the byte 0x20 decodes to negative=1, speed=0, motor_id=0,
\* takes the extension branch with id 0 and no motor is written.
C3_Original ==
    (Acted /\ got /\ packet = 32) =>
        /\ Fields(packet) = Triple(0, 1, 0)
        /\ branch = "extension"
        /\ motors = motorsBefore

\* C3 amended: the byte 0x04 decodes to negative=1, speed=0, motor_id=0, the
\* iteration takes the extension branch with extension id 0 and leaves the
\* duty cycle and direction of every motor as they were; the byte 0x20
\* decodes to negative=0, speed=4, motor_id=0 and takes the drive branch.
C3_Extension04 ==
    /\ (Acted /\ got /\ packet = 4) =>
          /\ Fields(packet) = Triple(0, 1, 0)
          /\ branch = "extension"
          /\ b_motor_id(packet) = 0
          /\ motors = motorsBefore
    /\ (Acted /\ got /\ packet = 32) =>
          /\ Fields(packet) = Triple(0, 0, 4)
          /\ branch = "drive"

C3_Witness ==
    /\ Acted
    /\ got
    /\ packet = 4
    /\ branch = "extension"
    /\ driven # {}

\* C4 as stated: the byte 0x41 decodes to motor_id=1, negative=0, speed=2 and
\* drives motor 1 forward at duty 2/31, the other motors untouched.
C4_Original ==
    (Acted /\ got /\ packet = 65) =>
        /\ Fields(packet) = Triple(1, 0, 2)
        /\ motors[1] = [pwm |-> 2, dir |-> ForwardLevel]
        /\ \A i \in Motors \ {1} : motors[i] = motorsBefore[i]

\* C4 amended: the byte 0x41 decodes to motor_id=1, negative=0, speed=8 and
\* the Act step of that iteration drives motor 1 forward at duty 8/31,
\* leaving motors 0, 2 and 3 untouched.
C4_Drive41 ==
    (Acted /\ got /\ packet = 65) =>
        /\ Fields(packet) = Triple(1, 0, 8)
        /\ branch = "drive"
        /\ motors[1] = [pwm |-> 8, dir |-> ForwardLevel]
        /\ \A i \in Motors \ {1} : motors[i] = motorsBefore[i]

C4_Witness ==
    /\ Acted
    /\ got
    /\ packet = 65
    /\ motors[1].pwm = 8
    /\ motorsBefore[1].pwm # 8

\* C5: for every packet that is not an extension command, after the Act step
\* the addressed motor's direction is the forward level exactly when the
\* normalized speed (negative ? -1 : 1) * speed / 31 is >= 0, and its duty
\* cycle is the absolute value of that speed, speed/31.
C5_ActuationMapping ==
    Acted =>
        LET f == Fields(ActedByte)
            s == IF f.negative = 1 THEN 0 - f.speed ELSE f.speed
            m == motors[f.motor_id]
        IN  ~(f.negative = 1 /\ f.speed = 0) =>
                /\ (m.dir = ForwardLevel) <=> (s >= 0)
                /\ (m.dir = ReverseLevel) <=> (s < 0)
                /\ m.pwm = (IF s >= 0 THEN s ELSE 0 - s)
                /\ m.pwm = f.speed

C5_Witness ==
    /\ Acted
    /\ ActedByte = 46
    /\ motors[2] = [pwm |-> 5, dir |-> ReverseLevel]
    /\ motorsBefore[2] = Motor_init

\* C6: an iteration whose Ingest step found no byte acts upon the packet the
\* previous iteration acted upon, and the state of the four motors after its
\* Act step is the state after the previous iteration's Act step.
C6_HoldLast ==
    (Acted /\ ~got /\ prevActed # <<>>) =>
        /\ acted = prevActed
        /\ packet = prevActed[1]
        /\ afterAct = afterPrevAct
        /\ motors = afterPrevAct

C6_Witness ==
    /\ Acted
    /\ ~got
    /\ origin # <<>>
    /\ prevActed = <<65>>
    /\ branch = "drive"
    /\ motors[1].pwm = 8

StepOrder == <<"ingest", "act", "sample", "report">>

\* C7: the steps of an iteration run once each in the order Ingest, Act,
\* Sample, Report, and an Ingest step runs only at the start or after the
\* Report step of the iteration before.
C7_StepOrder ==
    /\ Len(steps) <= 4
    /\ steps = SubSeq(StepOrder, 1, Len(steps))
    /\ pc = (IF Len(steps) \in {0, 4} THEN "ingest"
             ELSE StepOrder[Len(steps) + 1])
    /\ (pc = "ingest" /\ steps # <<>>) => steps = StepOrder

C7_Witness ==
    /\ steps = StepOrder
    /\ pc = "ingest"
    /\ prevActed # <<>>

\* the positions of the spaces of a line
SpacePos(line) == {i \in DOMAIN line : line[i] = " "}

\* the position of the k-th space of a line, 0 for k = 0
KthSpace(line, k) ==
    IF k = 0 THEN 0
    ELSE CHOOSE p \in SpacePos(line) :
             Cardinality({q \in SpacePos(line) : q <= p}) = k

\* the k-th space-terminated token of a line, k = 1, 2, ...
KthToken(line, k) ==
    SubSeq(line, KthSpace(line, k - 1) + 1, KthSpace(line, k) - 1)

UpperHexValue(c) ==
    CASE c = "0" -> 0  [] c = "1" -> 1  [] c = "2" -> 2  [] c = "3" -> 3
      [] c = "4" -> 4  [] c = "5" -> 5  [] c = "6" -> 6  [] c = "7" -> 7
      [] c = "8" -> 8  [] c = "9" -> 9  [] c = "A" -> 10 [] c = "B" -> 11
      [] c = "C" -> 12 [] c = "D" -> 13 [] c = "E" -> 14 [] c = "F" -> 15
      [] OTHER -> 16

RECURSIVE UpperHexNumber(_)
\* the number a string of upper-case hexadecimal digits denotes
UpperHexNumber(digits) ==
    IF digits = <<>> THEN 0
    ELSE 16 * UpperHexNumber(SubSeq(digits, 1, Len(digits) - 1))
            + UpperHexValue(digits[Len(digits)])

\* a token "0x" + upper-case hexadecimal of v without leading zeros
IsTokenOf(token, v) ==
    /\ Len(token) >= 3
    /\ token[1] = "0"
    /\ token[2] = "x"
    /\ LET digits == SubSeq(token, 3, Len(token))
       IN  /\ \A i \in DOMAIN digits : UpperHexValue(digits[i]) \in 0 .. 15
           /\ UpperHexNumber(digits) = v
           /\ Len(digits) = 1 \/ digits[1] # "0"

\* C8: an iteration writes nothing before its Report step and exactly one
\* line in it: one token per active channel in results-buffer order, each
\* "0x" + the upper-case unpadded hexadecimal of the value sampled in this
\* iteration + one space, then a newline; for samples 0x1234 and 0x0 the line
\* is "0x1234 0x0 \n".
C8_ReportLine ==
    /\ Len(steps) < 4 => tx = <<>>
    /\ Len(steps) = 4 =>
          /\ Cardinality({i \in DOMAIN tx : tx[i] = "\n"}) = 1
          /\ tx[Len(tx)] = "\n"
          /\ tx[Len(tx) - 1] = " "
          /\ Cardinality(SpacePos(tx)) = n_adc
          /\ IsTokenOf(KthToken(tx, 1), reads[LeftFlipperChannel])
          /\ IsTokenOf(KthToken(tx, 2), reads[RightFlipperChannel])
          /\ \A k \in 1 .. n_adc : IsTokenOf(KthToken(tx, k), adc_results[k - 1])
          /\ (adc_results[0] = 4660 /\ adc_results[1] = 0) =>
                tx = <<"0", "x", "1", "2", "3", "4", " ",
                       "0", "x", "0", " ", "\n">>

C8_Witness ==
    /\ Len(steps) = 4
    /\ reads[LeftFlipperChannel] = 4660
    /\ reads[RightFlipperChannel] = 0
    /\ tx = <<"0", "x", "1", "2", "3", "4", " ", "0", "x", "0", " ", "\n">>

\* C9 as stated: a motor not yet driven has duty 0 and its direction low,
\* and low is the level drive sets for a speed >= 0.
C9_Original ==
    \A i \in Motors \ driven :
        /\ motors[i].pwm = 0
        /\ motors[i].dir = 0
        /\ \A s \in 0 .. SpeedScale : motors[i].dir = drive(s).dir

\* C9 amended: a motor not yet driven has duty 0 and its direction low, and
\* low is the reverse level (the level drive sets for a speed < 0); the
\* forward level, which drive sets for a speed >= 0, is high.
C9_InitStoppedLow ==
    \A i \in Motors \ driven :
        /\ motors[i].pwm = 0
        /\ motors[i].dir = 0
        /\ motors[i].dir = ReverseLevel
        /\ \A s \in {0 - SpeedScale, 0 - 1} : motors[i].dir = drive(s).dir
        /\ \A s \in {0, 1, SpeedScale} : /\ motors[i].dir # drive(s).dir
                                         /\ drive(s).dir = ForwardLevel
        /\ \A j \in driven :
              IF lastSpeed[j][1] >= 0
              THEN motors[j].dir # motors[i].dir
              ELSE motors[j].dir = motors[i].dir

C9_Witness ==
    /\ driven = {1}
    /\ motors[1].pwm = 8
    /\ motors[0] = Motor_init
    /\ pc = "report"

\* C10: every Act step takes exactly one branch: the extension branch, keyed
\* on a motor_id in 0..3, exactly when the packet has negative set and
\* speed 0, the drive branch exactly when it has not; an iteration that takes
\* the extension branch leaves every motor's duty cycle and direction as
\* they were.
C10_Dispatch ==
    Acted =>
        LET f == Fields(ActedByte)
            ext == f.negative = 1 /\ f.speed = 0
        IN  /\ ActedByte = packet
            /\ branch \in {"extension", "drive"}
            /\ (branch = "extension") <=> ext
            /\ (branch = "drive") <=> ~ext
            /\ f.motor_id \in 0 .. 3
            /\ branch = "extension" => motors = motorsBefore
            /\ branch = "drive" =>
                  /\ f.motor_id \in driven
                  /\ \A i \in Motors \ {f.motor_id} : motors[i] = motorsBefore[i]

C10_Witness ==
    /\ Len(steps) = 4
    /\ got
    /\ packet = 7
    /\ branch = "extension"
    /\ motors = motorsBefore

\* a step changes motor i only if it is the Act step on a drive packet
\* addressed to motor i
C11_Frame ==
    \A i \in Motors :
        motors'[i] # motors[i] =>
            /\ pc = "act"
            /\ pc' = "sample"
            /\ Fields(packet).motor_id = i
            /\ ~(Fields(packet).negative = 1 /\ Fields(packet).speed = 0)

\* every driven motor shows the latest speed commanded to it
C11_State ==
    \A i \in Motors :
        /\ (i \in driven) <=> (lastSpeed[i] # <<>>)
        /\ i \in driven =>
              LET s == lastSpeed[i][1]
              IN  /\ s \in (0 - SpeedScale) .. SpeedScale
                  /\ motors[i].pwm = (IF s >= 0 THEN s ELSE 0 - s)
                  /\ (motors[i].dir = ForwardLevel) <=> (s >= 0)
                  /\ (motors[i].dir = ReverseLevel) <=> (s < 0)

\* C11: in every reachable state each motor driven at least once has as duty
\* cycle the absolute value of the normalized speed of the last drive command
\* addressed to it and is at the forward level iff that speed was >= 0; and
\* only a drive command addressed to motor i changes motor i: commands to
\* other motors, extension commands, Sample and Report steps do not.
C11_MotorState == [] C11_State /\ [][C11_Frame]_vars

C11_Witness ==
    /\ pc = "report"
    /\ {0, 1, 2} \subseteq driven
    /\ lastSpeed[0] = <<4>>
    /\ lastSpeed[1] = <<8>>
    /\ lastSpeed[2] = <<0 - 5>>
    /\ motors[2] = [pwm |-> 5, dir |-> ReverseLevel]
    /\ branch = "extension"

\* the Ingest step takes the oldest pending byte if there is one and nothing
\* otherwise; no other step takes a byte out of the receive buffer
C12_Step ==
    IF pc = "ingest" /\ pc' # "ingest"
    THEN /\ pc' = "act"
         /\ rx # <<>> =>
               /\ got'
               /\ Len(rx') = Len(rx) - 1
               /\ \A k \in 1 .. Len(rx') : rx'[k] = rx[k + 1]
               /\ packet' = rx[1].byte
               /\ origin' = <<rx[1].triple>>
         /\ rx = <<>> =>
               /\ ~got'
               /\ rx' = <<>>
               /\ packet' = packet
    ELSE /\ Len(rx') >= Len(rx)
         /\ \A k \in 1 .. Len(rx) : rx'[k] = rx[k]
         /\ origin' = origin

\* the byte read in this iteration is the one this iteration acts upon
C12_ActsOnRead ==
    (Acted /\ got) =>
        /\ origin # <<>>
        /\ ActedByte = packet
        /\ Fields(ActedByte) = origin[1]

\* C12: an Ingest step that finds a byte readable removes exactly the oldest
\* pending byte and makes it the current packet, which the same iteration
\* acts upon; one that finds none reads nothing and goes on to the Act step
\* (it is always enabled); no other step removes or reorders pending bytes.
C12_IngestOne ==
    /\ [] (pc = "ingest" => ENABLED Ingest)
    /\ [] C12_ActsOnRead
    /\ [][C12_Step]_vars

C12_Witness ==
    /\ pc = "act"
    /\ got
    /\ packet = 65
    /\ Len(rx) = 1
    /\ rx[1].byte = 4
    /\ acted = <<32>>

\* C13: for every packet the normalized speed handed to drive lies in
\* [-1, 1] (numerator in -31..31) and every duty cycle lies in [0, 1]; speed
\* 31 gives duty exactly 1, and speed 0 with negative clear gives duty 0 at
\* the forward level.
C13_DutyRange ==
    /\ \A i \in Motors : motors[i].pwm \in 0 .. SpeedScale
    /\ \A i \in driven : lastSpeed[i][1] \in (0 - SpeedScale) .. SpeedScale
    /\ (Acted /\ branch = "drive") =>
          LET id == ActedByte % 4
              neg == (ActedByte \div 4) % 2
              spd == ActedByte \div 8
          IN  /\ lastSpeed[id] = <<(IF neg = 1 THEN 0 - spd ELSE spd)>>
              /\ spd = 31 => motors[id].pwm = SpeedScale
              /\ (spd = 0 /\ neg = 0) =>
                    motors[id] = [pwm |-> 0, dir |-> ForwardLevel]

C13_Witness ==
    /\ Acted
    /\ ActedByte = 255
    /\ lastSpeed[3] = <<0 - 31>>
    /\ motors[3] = [pwm |-> SpeedScale, dir |-> ReverseLevel]

\* the Sample step of the current iteration has run
Sampled == Len(steps) >= 3

\* C14: with any number n_active - 2 >= 0 of leading channels in use, after
\* the Sample step every slot of the results buffer has been stored exactly
\* once with a reading of this step: slots n_active-2 and n_active-1 hold the
\* readings of channels 4 and 5, each leading slot i < n_active-2 holds the
\* reading of channel i; the channel bindings never change.
C14_ChannelMapping ==
    /\ pots = PotPins
    /\ (Sampled /\ n_active >= 2) =>
          /\ DOMAIN adc_results = 0 .. (n_active - 1)
          /\ adc_results[n_active - 2] = reads[4]
          /\ adc_results[n_active - 1] = reads[5]
          /\ \A i \in 0 .. (n_active - 3) : adc_results[i] = reads[i]
          /\ Len(writes) = n_active
          /\ \A i \in 0 .. (n_active - 1) :
                Cardinality({k \in DOMAIN writes : writes[k].slot = i}) = 1
          /\ DOMAIN reads = {writes[k].channel : k \in DOMAIN writes}

C14_Witness ==
    /\ Sampled
    /\ n_active = 5
    /\ reads[0] = 4660
    /\ reads[1] = 0
    /\ reads[2] = 4660
    /\ reads[4] = 4660
    /\ reads[5] = 0
    /\ adc_results[3] = 4660
    /\ adc_results[4] = 0

\* C15: an Act step that applies the drive command the Act step before it
\* applied (the same byte received again, or the packet held with no new
\* byte) leaves the duty cycle and direction of every motor as they were.
C15_DriveIdempotent ==
    (Acted /\ branch = "drive" /\ prevActed = acted) =>
        /\ motors = motorsBefore
        /\ afterAct = afterPrevAct
        /\ motors[ActedByte % 4] = drive(lastSpeed[ActedByte % 4][1])

C15_Witness ==
    /\ Acted
    /\ got
    /\ branch = "drive"
    /\ acted = <<65>>
    /\ prevActed = <<65>>
    /\ motors[1].pwm = 8

C17_NoMotionBeforeFirstByte ==
    origin = <<>> =>
        \A i \in Motors :
            /\ motors[i].pwm = 0
            /\ lastSpeed[i] \in {<<>>, <<0>>}

====
